---- MODULE Spec2Model ----
(***************************************************************************)
(* Maintenance-mode gate of the web3.storage API                           *)
(* (packages/api/src/maintenance.js).                                      *)
(*                                                                         *)
(* A mode is a JavaScript string; it is modelled as the sequence of its    *)
(* characters, so that m.split('') yields the sequence itself and the      *)
(* bitwise comparison of withMode works on the characters.                 *)
(***************************************************************************)
EXTENDS Integers, Sequences, FiniteSets, TLC

(* ---------------------------------------------------------------------- *)
(* Bounds and input sets                                                   *)
(* ---------------------------------------------------------------------- *)

\* How many times one underlying handler may be invoked in a behaviour.
MaxCalls == 2

\* The route handlers that may be wrapped (one wrapper per handler).
Handlers == {"h1", "h2"}

\* The (request, ctx) pairs a router may pass to a wrapped handler.
Requests == {"GET", "POST"}

\* What an underlying handler may return.
HandlerResults == {"resA", "resB"}

(* ---------------------------------------------------------------------- *)
(* maintenance.js: constants                                               *)
(* ---------------------------------------------------------------------- *)

READ_WRITE == <<"r", "w">>

READ_ONLY == <<"r", "-">>

NO_READ_OR_WRITE == <<"-", "-">>

modes == <<NO_READ_OR_WRITE, READ_ONLY, READ_WRITE>>

DEFAULT_MODE == READ_WRITE

\* Strings an operator may store in MAINTENANCE_MODE, or a programmer may
\* pass to withMode: the three canonical modes and two other strings.
ModeValues == {NO_READ_OR_WRITE, READ_ONLY, READ_WRITE, <<"-", "w">>, <<"x", "x">>}

VARIABLES
    MODE,       \* env.MODE, the runtime maintenance mode
    wrappers,   \* handler -> the mode bound in the closure withMode returned
    calls,      \* handler -> number of invocations of the underlying handler
    last,       \* what the last withMode call or request did
    memo        \* some earlier request evaluation, kept for comparison

vars == <<MODE, wrappers, calls, last, memo>>

(* ---------------------------------------------------------------------- *)
(* maintenance.js: modeBits, maintenanceHandler, enabled                   *)
(* ---------------------------------------------------------------------- *)

\* modes.includes(m)
includes(arr, m) == \E i \in DOMAIN arr : arr[i] = m

HTTPError(m) ==
    [name |-> "HTTPError", status |-> 503,
     message |-> [text |-> "invalid maintenance mode, wanted one of", wanted |-> modes, got |-> m]]

MaintenanceError ==
    [name |-> "MaintenanceError",
     message |-> [text |-> "API undergoing maintenance, check https://status.web3.storage for more info"]]

InvalidModeError == [name |-> "Error", message |-> [text |-> "invalid mode"]]

\* modeBits without the membership test: a mutant.
modeBitsUnchecked(m) == [threw |-> FALSE, bits |-> m]

\* modeBits(m): throws HTTPError unless m is canonical, else m.split('').
modeBits(m) ==
    IF ~includes(modes, m)
    THEN [threw |-> TRUE, error |-> HTTPError(m)]
    ELSE [threw |-> FALSE, bits |-> m]

\* maintenanceHandler throwing the configuration error: a mutant.
maintenanceHandlerHTTP == [kind |-> "throw", error |-> HTTPError(<<"m">>)]

\* maintenanceHandler(): always throws.
maintenanceHandler == [kind |-> "throw", error |-> MaintenanceError]

\* The callback of every(): a '-' bit needs nothing, another bit must be
\* matched by the current mode at the same index.
bitOk(bit, currentModeBits, i) ==
    IF bit = "-" THEN TRUE
    ELSE i \in DOMAIN currentModeBits /\ currentModeBits[i] = bit

\* Array.prototype.some in the place of every: a mutant.
RECURSIVE some(_, _, _)
some(bits, currentModeBits, i) ==
    IF i > Len(bits) THEN [value |-> FALSE, compared |-> 0]
    ELSE IF bitOk(bits[i], currentModeBits, i) THEN [value |-> TRUE, compared |-> 1]
    ELSE LET rest == some(bits, currentModeBits, i + 1)
         IN  [value |-> rest.value, compared |-> rest.compared + 1]

\* Array.prototype.every from index i on: stops at the first false.
\* compared counts the callback invocations.
RECURSIVE every(_, _, _)
every(bits, currentModeBits, i) ==
    IF i > Len(bits) THEN [value |-> TRUE, compared |-> 0]
    ELSE IF ~bitOk(bits[i], currentModeBits, i) THEN [value |-> FALSE, compared |-> 1]
    ELSE LET rest == every(bits, currentModeBits, i + 1)
         IN  [value |-> rest.value, compared |-> rest.compared + 1]

\* enabled with the comparison reversed (a bit the current mode lacks is
\* ignored instead of a bit the requirement lacks): a mutant.
enabledSwapped(mode, currentMode) ==
    LET cur == modeBits(currentMode)
        req == modeBits(mode)
    IN  IF cur.threw THEN [threw |-> TRUE, error |-> cur.error, compared |-> 0]
        ELSE IF req.threw THEN [threw |-> TRUE, error |-> req.error, compared |-> 0]
        ELSE LET e == every(cur.bits, req.bits, 1)
             IN  [threw |-> FALSE, value |-> e.value, compared |-> e.compared]

\* enabled that reuses the decision of the previous request to a handler
\* with the same requirement: a mutant with hidden state.
enabledSticky(mode, currentMode) ==
    LET cur == modeBits(currentMode)
        req == modeBits(mode)
    IN  IF cur.threw THEN [threw |-> TRUE, error |-> cur.error, compared |-> 0]
        ELSE IF req.threw THEN [threw |-> TRUE, error |-> req.error, compared |-> 0]
        ELSE IF last.op = "request" /\ last.mode = mode /\ last.outcome.kind = "throw"
                /\ last.outcome.error.name = "MaintenanceError"
        THEN [threw |-> FALSE, value |-> FALSE, compared |-> 0]
        ELSE LET e == every(req.bits, cur.bits, 1)
             IN  [threw |-> FALSE, value |-> e.value, compared |-> e.compared]

\* enabled(): modeBits(currentMode) first, then modeBits(mode), then every.
enabled(mode, currentMode) ==
    LET cur == modeBits(currentMode)
        req == modeBits(mode)
    IN  IF cur.threw THEN [threw |-> TRUE, error |-> cur.error, compared |-> 0]
        ELSE IF req.threw THEN [threw |-> TRUE, error |-> req.error, compared |-> 0]
        ELSE LET e == every(req.bits, cur.bits, 1)
             IN  [threw |-> FALSE, value |-> e.value, compared |-> e.compared]

\* const currentMode = env.MODE, remembered from the previous request: a mutant.
currentModeCached == IF last.op = "request" THEN last.currentMode ELSE MODE

\* const currentMode = env.MODE
currentMode == MODE

(* ---------------------------------------------------------------------- *)
(* State machine                                                           *)
(* ---------------------------------------------------------------------- *)

Init ==
    /\ MODE = DEFAULT_MODE
    /\ wrappers = << >>
    /\ calls = [h \in Handlers |-> 0]
    /\ last = [op |-> "none"]
    /\ memo = [op |-> "none"]

\* The operator runs `wrangler secret put MAINTENANCE_MODE`.
SetMode(m) ==
    /\ m /= MODE
    /\ MODE' = m
    /\ UNCHANGED <<wrappers, calls, last, memo>>

\* The guard of withMode, without the throw: a mutant.
rejectsNever(mode) == FALSE

\* if (mode === NO_READ_OR_WRITE) throw new Error('invalid mode')
rejects(mode) == mode = NO_READ_OR_WRITE

\* A closure that reads one shared mode variable instead of its own
\* parameter, so that every wrapper gets the mode wrapped last: a mutant.
bindShared(w, handler, mode) == [h \in DOMAIN w \cup {handler} |-> mode]

\* return (request, env, ctx) => ...: the new closure captures (handler, mode);
\* the closures returned before keep theirs.
bind(w, handler, mode) ==
    [h \in DOMAIN w \cup {handler} |-> IF h = handler THEN mode ELSE w[h]]

\* withMode(handler, mode): throws for '--', else returns the closure.
withMode(handler, mode) ==
    /\ handler \notin DOMAIN wrappers
    /\ IF rejects(mode)
       THEN /\ last' = [op |-> "withMode", handler |-> handler, mode |-> mode,
                        outcome |-> [kind |-> "throw", error |-> InvalidModeError]]
            /\ UNCHANGED wrappers
       ELSE /\ last' = [op |-> "withMode", handler |-> handler, mode |-> mode,
                        outcome |-> [kind |-> "return", value |-> "wrapper"]]
            /\ wrappers' = bind(wrappers, handler, mode)
    /\ UNCHANGED <<MODE, calls, memo>>

\* The three outcomes of a request evaluation.
Classify(outcome) ==
    IF outcome.kind = "return" THEN "allow"
    ELSE IF outcome.error.name = "MaintenanceError" THEN "maintenance-block"
    ELSE "config-error"

\* The underlying handler called without the execution context: a mutant.
handlerArgsNoCtx(request, env, ctx) == <<request, env>>

\* handler(request, env, ctx): the arguments the closure passes on.
handlerArgs(request, env, ctx) == <<request, env, ctx>>

\* The closure returned by withMode, called by the router with
\* (request, env, ctx); result is what the underlying handler returns
\* if it is invoked.
Request(handler, request, result) ==
    /\ handler \in DOMAIN wrappers
    /\ calls[handler] < MaxCalls
    /\ LET mode == wrappers[handler]
           env == [MODE |-> MODE]
           ctx == "ctx"
           cm == currentMode
           e == enabled(mode, cm)
           invoked == ~e.threw /\ e.value
           outcome == IF e.threw THEN [kind |-> "throw", error |-> e.error]
                      ELSE IF e.value THEN [kind |-> "return", value |-> result]
                      ELSE maintenanceHandler
       IN  /\ last' = [op |-> "request", handler |-> handler, mode |-> mode,
                       args |-> <<request, env, ctx>>,
                       currentMode |-> cm, compared |-> e.compared,
                       invoked |-> IF invoked THEN 1 ELSE 0,
                       passed |-> IF invoked THEN <<handlerArgs(request, env, ctx)>> ELSE << >>,
                       handlerResult |-> IF invoked THEN <<result>> ELSE << >>,
                       outcome |-> outcome]
           /\ calls' = [calls EXCEPT ![handler] = IF invoked THEN @ + 1 ELSE @]
           /\ \/ UNCHANGED memo
              \/ memo' = [op |-> "request", handler |-> handler, mode |-> mode,
                          envMode |-> MODE, class |-> Classify(outcome)]
    /\ UNCHANGED <<MODE, wrappers>>

Next ==
    \/ \E m \in ModeValues : SetMode(m)
    \/ \E h \in Handlers, m \in ModeValues : withMode(h, m)
    \/ \E h \in Handlers, r \in Requests, res \in HandlerResults : Request(h, r, res)

Spec == Init /\ [][Next]_vars

(* ---------------------------------------------------------------------- *)
(* Vocabulary of the properties                                            *)
(* ---------------------------------------------------------------------- *)

\* The requirements a handler may declare: read-only and read-write.
ReqModes == {READ_ONLY, READ_WRITE}

Canonical(m) == m \in {NO_READ_OR_WRITE, READ_ONLY, READ_WRITE}

\* The runtime mode at the time of the request recorded in l.
EnvMode(l) == l.args[2].MODE

\* The bit rule: each bit of the requirement is '-' or is granted by m.
BitRule(req, m) == (req[1] = "-" \/ m[1] = "r") /\ (req[2] = "-" \/ m[2] = "w")

\* The pairs (requirement, runtime mode) that are permitted.
PermittedPairs ==
    {<<READ_ONLY, READ_ONLY>>, <<READ_ONLY, READ_WRITE>>, <<READ_WRITE, READ_WRITE>>}

\* Permissiveness order -- < r- < rw.
Rank(m) == IF m = NO_READ_OR_WRITE THEN 0 ELSE IF m = READ_ONLY THEN 1 ELSE 2

IsRequest(l) == l.op = "request"

ThrewNamed(l, name) == l.outcome.kind = "throw" /\ l.outcome.error.name = name

\* A request to a handler with requirement r- or rw under a canonical mode.
GatedRequest(l) == IsRequest(l) /\ l.mode \in ReqModes /\ Canonical(EnvMode(l))

(* ---------------------------------------------------------------------- *)
(* Properties                                                              *)
(* ---------------------------------------------------------------------- *)

\* C1: for a requirement in {r-, rw} and a runtime mode in {--, r-, rw} the
\* handler is invoked iff every bit of the requirement is '-' or granted by
\* the runtime mode, that is exactly for (r-, r-), (r-, rw) and (rw, rw).
C1_PermitIffBits ==
    GatedRequest(last) =>
        /\ (last.invoked = 1) <=> BitRule(last.mode, EnvMode(last))
        /\ (last.invoked = 1) <=> (<<last.mode, EnvMode(last)>> \in PermittedPairs)
        /\ (last.invoked = 1) <=> (last.outcome.kind = "return")

C1_Witness ==
    /\ GatedRequest(last) /\ last.mode = READ_ONLY /\ EnvMode(last) = READ_ONLY
    /\ last.invoked = 1
    /\ memo.op = "request" /\ memo.mode = READ_WRITE /\ memo.envMode = READ_ONLY
    /\ memo.class = "maintenance-block"

\* C2: a request that is not permitted under a canonical runtime mode never
\* invokes the handler and ends by throwing MaintenanceError with the fixed
\* status-page message, never with a handler result or the HTTPError.
C2_BlockedThrowsMaintenance ==
    [][(GatedRequest(last') /\ <<last.mode, EnvMode(last)>>' \notin PermittedPairs) =>
          /\ calls' = calls
          /\ last'.invoked = 0 /\ last'.passed = << >>
          /\ last'.outcome.kind = "throw"
          /\ last'.outcome.error.name = "MaintenanceError"
          /\ last'.outcome.error.message.text =
                "API undergoing maintenance, check https://status.web3.storage for more info"]_vars

C2_Witness ==
    /\ GatedRequest(last) /\ last.mode = READ_WRITE /\ EnvMode(last) = READ_ONLY
    /\ ThrewNamed(last, "MaintenanceError")
    /\ calls[last.handler] = 0

\* A step that evaluates a request (the runtime mode is not changed by it).
RequestStep == IsRequest(last') /\ MODE' = MODE

\* C3: a permitted request invokes the handler exactly once, with the
\* (request, env, ctx) the gate received, and returns the handler's result.
C3_PermittedPassThrough ==
    [][(RequestStep /\ GatedRequest(last') /\ <<last.mode, EnvMode(last)>>' \in PermittedPairs) =>
          /\ calls' = [calls EXCEPT ![last'.handler] = @ + 1]
          /\ last'.invoked = 1
          /\ last'.passed = <<last'.args>>
          /\ last'.outcome = [kind |-> "return", value |-> last'.handlerResult[1]]]_vars

C3_Witness ==
    /\ GatedRequest(last) /\ last.mode = READ_WRITE /\ EnvMode(last) = READ_WRITE
    /\ last.args[1] = "POST"
    /\ last.outcome = [kind |-> "return", value |-> "resB"]
    /\ calls[last.handler] = 2

\* C4: withMode(handler, '--') throws at wrap time whatever the runtime mode
\* and returns no handler, so no wrapper has the requirement '--'.
C4_NoWrapperForBlockedMode ==
    /\ \A h \in DOMAIN wrappers : wrappers[h] /= NO_READ_OR_WRITE
    /\ (last.op = "withMode" /\ last.mode = NO_READ_OR_WRITE) =>
          /\ last.outcome = [kind |-> "throw",
                             error |-> [name |-> "Error", message |-> [text |-> "invalid mode"]]]
          /\ last.handler \notin DOMAIN wrappers
    /\ IsRequest(last) => last.mode /= NO_READ_OR_WRITE

C4_Witness ==
    /\ last.op = "withMode" /\ last.mode = NO_READ_OR_WRITE
    /\ last.outcome.kind = "throw"
    /\ MODE = NO_READ_OR_WRITE

\* C5: under a runtime mode outside {--, r-, rw} every request to a handler
\* with requirement r- or rw throws the HTTPError with status 503 naming
\* that mode, before any bit is compared and without invoking the handler.
C5_InvalidRuntimeMode ==
    (IsRequest(last) /\ last.mode \in ReqModes /\ ~Canonical(EnvMode(last))) =>
        /\ ThrewNamed(last, "HTTPError")
        /\ last.outcome.error.status = 503
        /\ last.outcome.error.message.got = EnvMode(last)
        /\ last.compared = 0
        /\ last.invoked = 0

C5_Witness ==
    /\ IsRequest(last) /\ last.mode = READ_ONLY /\ EnvMode(last) = <<"x", "x">>
    /\ ThrewNamed(last, "HTTPError")

\* C6: the runtime mode is read on each request: a handler seen blocked is
\* permitted on a later request made under a satisfying mode, and a handler
\* seen permitted is blocked on a later request under a non-satisfying mode,
\* the wrapper being the same; the mode the decision used is env.MODE.
C6_ModeReadPerRequest ==
    (IsRequest(last) /\ memo.op = "request" /\ memo.handler = last.handler) =>
        /\ last.currentMode = EnvMode(last)
        /\ last.mode = memo.mode
        /\ (memo.class = "maintenance-block" /\ <<last.mode, EnvMode(last)>> \in PermittedPairs)
              => last.outcome.kind = "return"
        /\ (memo.class = "allow" /\ Canonical(EnvMode(last))
                /\ <<last.mode, EnvMode(last)>> \notin PermittedPairs)
              => ThrewNamed(last, "MaintenanceError")

C6_Witness ==
    /\ IsRequest(last) /\ memo.op = "request" /\ memo.handler = last.handler
    /\ memo.class = "maintenance-block" /\ memo.envMode = READ_ONLY
    /\ last.outcome.kind = "return" /\ EnvMode(last) = READ_WRITE

\* C7: a withMode call or a request leaves env.MODE and the requirement of
\* every existing wrapper unchanged; only the operator changes the mode.
C7_GateChangesNothing ==
    [][(last' /= last \/ calls' /= calls \/ wrappers' /= wrappers) =>
          /\ MODE' = MODE
          /\ \A h \in DOMAIN wrappers : h \in DOMAIN wrappers' /\ wrappers'[h] = wrappers[h]]_vars

C7_Witness ==
    /\ IsRequest(last) /\ MODE = READ_ONLY /\ EnvMode(last) = READ_ONLY
    /\ DOMAIN wrappers = Handlers
    /\ wrappers["h1"] /= wrappers["h2"]
    /\ calls[last.handler] > 0

C9_Monotone ==
    /\ (GatedRequest(last) /\ memo.op = "request" /\ memo.mode = last.mode
            /\ Canonical(memo.envMode)) =>
          /\ (memo.class = "allow" /\ Rank(memo.envMode) <= Rank(EnvMode(last)))
                => last.invoked = 1
          /\ (memo.class = "maintenance-block" /\ Rank(EnvMode(last)) <= Rank(memo.envMode))
                => (last.invoked = 0 /\ ThrewNamed(last, "MaintenanceError"))
    /\ (IsRequest(last) /\ EnvMode(last) = NO_READ_OR_WRITE) => last.invoked = 0

C9_Witness ==
    /\ GatedRequest(last) /\ memo.op = "request" /\ memo.mode = last.mode
    /\ memo.class = "allow" /\ memo.envMode = READ_ONLY
    /\ EnvMode(last) = READ_WRITE /\ last.invoked = 1

\* C10: a requirement outside the three canonical values is accepted by
\* withMode, but its handler is never invoked: every request to it throws
\* the HTTPError with status 503 whatever the runtime mode, never the
\* MaintenanceError.
C10_InvalidRequirement ==
    /\ (last.op = "withMode" /\ ~Canonical(last.mode)) =>
          /\ last.outcome.kind = "return"
          /\ last.handler \in DOMAIN wrappers /\ wrappers[last.handler] = last.mode
    /\ (IsRequest(last) /\ ~Canonical(last.mode)) =>
          /\ ThrewNamed(last, "HTTPError")
          /\ last.outcome.error.status = 503
          /\ last.invoked = 0
    /\ \A h \in DOMAIN wrappers : ~Canonical(wrappers[h]) => calls[h] = 0

C10_Witness ==
    /\ IsRequest(last) /\ last.mode = <<"-", "w">> /\ EnvMode(last) = READ_WRITE
    /\ ThrewNamed(last, "HTTPError")

====
